---- MODULE Spec2Model ----
(***************************************************************************)
(* Model of the per-guild actor of TomBot: GuildHandler::new / start /     *)
(* close and handle_admin_interaction (src/src/discord_bot/guilds.rs) and  *)
(* PayCommand::handle_application_command (commands/pay.rs).               *)
(*                                                                         *)
(* One GuildHandler is modelled.  Its mailbox is the tokio unbounded mpsc  *)
(* channel created in new(); the run loops are the tasks spawned by        *)
(* start(); the handler tasks are the tasks spawned per interaction.       *)
(* close() is an async fn: it takes one step to send Shutdown and a second *)
(* step when either the run loop has finished or the timer has fired.      *)
(* start() and close() both take &mut self, so neither can begin while a   *)
(* close() is still waiting.                                               *)
(*                                                                         *)
(* Time is abstract.  A handler task is either prompt (it completes within *)
(* any timeout) or slow (it outlasts the timeout: it may complete later or *)
(* never).  The timer of close() can elapse only while the run loop waits  *)
(* on something that takes time: the 10 s registration backoff sleep or a  *)
(* slow handler in the final drain.                                        *)
(***************************************************************************)
EXTENDS Integers, Sequences, FiniteSets, TLC

\* ---- bounds -------------------------------------------------------------
MaxEvents == 2      \* sends on internal_tx by the event source
MaxStarts == 2      \* calls of start()
MaxCloses == 2      \* calls of close()
MaxRegFails == 2    \* failed registration attempts per run loop
MaxRestarts == MaxStarts + 1   \* calls of start() in RestartSpec

\* ---- data ---------------------------------------------------------------
\* serenity's Interaction enum
InteractionKinds ==
    {"Ping", "ApplicationCommand", "MessageComponent", "Autocomplete", "ModalSubmit"}

\* the DiscordEvent values the event source sends: an Interaction of some kind
\* (an ApplicationCommand names the command it is for), or another variant
SentEvents ==
    {[event |-> "Interaction", kind |-> k, cmd |-> "-"] :
        k \in InteractionKinds \ {"ApplicationCommand"}}
    \cup {[event |-> "Interaction", kind |-> "ApplicationCommand", cmd |-> c] :
        c \in {"pay", "other"}}
    \cup {[event |-> "Other", kind |-> "-", cmd |-> "-"]}

\* the events sent in RestartSpec: one that is dropped and one that gets a
\* handler task
RestartEvents ==
    {[event |-> "Interaction", kind |-> "Ping", cmd |-> "-"],
     [event |-> "Interaction", kind |-> "ApplicationCommand", cmd |-> "other"]}

ShutdownEvent == [event |-> "Shutdown", kind |-> "-", cmd |-> "-"]

VARIABLES
    handle,       \* GuildHandler.handle: 0 is None, n is Some(run loop n)
    loops,        \* the run-loop tasks spawned so far, in spawn order
    rxHolder,     \* the run loop holding the write guard of internal_rx, or 0
    mailbox,      \* messages buffered in the channel
    rxClosed,     \* internal_rx.close() has been called
    nextId,       \* identity given to the next message sent
    handlers,     \* the handler tasks spawned so far, by message id
    enqueued,     \* the messages whose send succeeded, in send order
    refused,      \* ids of the messages whose send failed
    dequeued,     \* the messages returned by recv(), in order
    spawns,       \* ids for which a handler task was spawned, in order
    closePc,      \* "idle", or "waiting" inside tokio::time::timeout
    lastClose,    \* what the last close() call saw and did
    lastStart,    \* what the last start() call saw and returned
    abortLog,     \* number of warn!("failed to close handler ...") entries
    stderrLog,    \* number of eprintln!("Already monitoring guild") lines
    ignoredLog,   \* number of error!("bot ignoring unexpected event") entries
    nStarts, nCloses, nSent

vars == <<handle, loops, rxHolder, mailbox, rxClosed, nextId, handlers,
          enqueued, refused, dequeued, spawns, closePc, lastClose, lastStart,
          abortLog, stderrLog, ignoredLog, nStarts, nCloses, nSent>>

LoopIds == 1..Len(loops)

NoClose == [called |-> FALSE, loop |-> 0, sent |-> FALSE, aborted |-> FALSE,
            ret |-> "-", inflight |-> {}, logs |-> 0]
NoStart == [called |-> FALSE, duplicate |-> FALSE, ret |-> "-"]

\* GuildHandler::new
Init ==
    /\ handle = 0
    /\ loops = << >>
    /\ rxHolder = 0
    /\ mailbox = << >>
    /\ rxClosed = FALSE
    /\ nextId = 1
    /\ handlers = [i \in {} |-> 0]
    /\ enqueued = << >>
    /\ refused = {}
    /\ dequeued = << >>
    /\ spawns = << >>
    /\ closePc = "idle"
    /\ lastClose = NoClose
    /\ lastStart = NoStart
    /\ abortLog = 0
    /\ stderrLog = 0
    /\ ignoredLog = 0
    /\ nStarts = 0 /\ nCloses = 0 /\ nSent = 0

\* ---- handlers: pure functions ------------------------------------------
\* The ways one run of a handler can go.  For "pay" they are the exits of
\* PayCommand::handle_application_command: an unwrap() that panics, an Err
\* returned before the response is created, the response created, or the
\* creation failing.
Paths(kind, cmd) ==
    CASE kind = "ApplicationCommand" /\ cmd = "pay" ->
            {"panic", "early_err", "sent", "send_failed"}
      [] kind = "ApplicationCommand" -> {"ok", "err"}
      [] kind = "Autocomplete" -> {"ok", "err"}
      [] OTHER -> {"-"}

\* PayCommand::handle_application_command: the Result it returns and the
\* number of create_interaction_response calls it makes itself
handle_application_command(path) ==
    CASE path = "panic"       -> [result |-> "Panic", calls |-> 0]
      [] path = "early_err"   -> [result |-> "Err", calls |-> 0]
      [] path = "sent"        -> [result |-> "Ok", calls |-> 1]
      [] path = "send_failed" -> [result |-> "Err", calls |-> 1]

\* commands::command: dispatch of an application command to its handler
command(cmd, path) ==
    IF cmd = "pay"
    THEN handle_application_command(path)
    ELSE [result |-> IF path = "ok" THEN "Ok" ELSE "Err", calls |-> 0]

\* handle_admin_interaction: the number of terminal response calls made to the
\* platform for the interaction, whether the task panicked, and whether the
\* invocation failed (the handler returned Err, or the task panicked)
handle_admin_interaction(kind, cmd, path) ==
    CASE kind = "ApplicationCommand" ->
            LET res == command(cmd, path) IN
            IF res.result = "Panic"
            THEN [calls |-> res.calls, panicked |-> TRUE, failed |-> TRUE]
            ELSE [calls |-> res.calls + 1, panicked |-> FALSE,
                  failed |-> res.result = "Err"]
      [] kind = "MessageComponent" ->
            [calls |-> 0, panicked |-> FALSE, failed |-> FALSE]
      [] kind = "Autocomplete" ->
            [calls |-> 1, panicked |-> FALSE, failed |-> path = "err"]
      [] kind = "ModalSubmit" ->
            [calls |-> 0, panicked |-> FALSE, failed |-> FALSE]
      [] OTHER ->
            [calls |-> 0, panicked |-> TRUE, failed |-> TRUE]

\* ---- the mailbox ---------------------------------------------------------
\* UnboundedSender::send: fails once the receiver has been closed
CanSend == ~rxClosed

\* RecvMessage with a fault: the newest buffered message is returned
RecvMessageNewest(q) == q[Len(q)]

\* UnboundedReceiver::recv: the message it returns
RecvMessage(q) == Head(q)
\* ... and what stays buffered
RecvRest(q) == Tail(q)

\* the event source sends an event on a clone of internal_tx
Enqueue(ev) ==
    /\ nSent < MaxEvents
    /\ nSent' = nSent + 1
    /\ nextId' = nextId + 1
    /\ IF CanSend
       THEN /\ mailbox' = Append(mailbox, [id |-> nextId] @@ ev)
            /\ enqueued' = Append(enqueued, [id |-> nextId] @@ ev)
            /\ UNCHANGED refused
       ELSE /\ refused' = refused \cup {nextId}
            /\ UNCHANGED <<mailbox, enqueued>>
    /\ UNCHANGED <<handle, loops, rxHolder, rxClosed, handlers, dequeued,
                   spawns, closePc, lastClose, lastStart, abortLog, stderrLog,
                   ignoredLog, nStarts, nCloses>>

\* ---- GuildHandler::start -------------------------------------------------
NewLoop == [pc |-> "register", task_handles |-> {}, attempts |-> 0,
            successes |-> 0, fails |-> 0, cancelled |-> FALSE, received |-> 0,
            exit |-> "-"]

\* MaySpawn with a fault: start() spawns whether or not a handle is set
MaySpawnAlways == TRUE

\* the test of start(): a run loop is spawned only when no handle is set
MaySpawn == handle = 0

\* start(), called at most `limit` times
StartCall(limit) ==
    /\ closePc = "idle"
    /\ nStarts < limit
    /\ nStarts' = nStarts + 1
    /\ IF MaySpawn
       THEN /\ loops' = Append(loops, NewLoop)
            /\ handle' = Len(loops) + 1
            /\ lastStart' = [called |-> TRUE, duplicate |-> FALSE, ret |-> "unit"]
            /\ UNCHANGED stderrLog
       ELSE /\ stderrLog' = stderrLog + 1
            /\ lastStart' = [called |-> TRUE, duplicate |-> TRUE, ret |-> "unit"]
            /\ UNCHANGED <<loops, handle>>
    /\ UNCHANGED <<rxHolder, mailbox, rxClosed, nextId, handlers, enqueued,
                   refused, dequeued, spawns, closePc, lastClose, abortLog,
                   ignoredLog, nCloses, nSent>>

Start == StartCall(MaxStarts)

\* ---- the run loop spawned by start() ------------------------------------
Live(l) == ~loops[l].cancelled /\ loops[l].pc \notin {"done", "aborted"}

\* RegistrationDone with a fault: the loop is left after the first attempt
RegistrationDoneAlways(ok) == TRUE

\* `while let Err(e) = set_application_commands(..)`: the loop is left on Ok
RegistrationDone(ok) == ok

\* one attempt to register the command set, then the backoff sleep begins
Register(l) ==
    /\ Live(l) /\ loops[l].pc = "register"
    /\ \E ok \in BOOLEAN :
          /\ ~ok => loops[l].fails < MaxRegFails
          /\ loops' = [loops EXCEPT ![l] =
                [@ EXCEPT !.attempts = @ + 1,
                          !.successes = IF ok THEN @ + 1 ELSE @,
                          !.fails = IF ok THEN @ ELSE @ + 1,
                          !.pc = IF RegistrationDone(ok) THEN "lock" ELSE "backoff"]]
    /\ UNCHANGED <<handle, rxHolder, mailbox, rxClosed, nextId, handlers,
                   enqueued, refused, dequeued, spawns, closePc, lastClose,
                   lastStart, abortLog, stderrLog, ignoredLog, nStarts, nCloses,
                   nSent>>

\* tokio::time::sleep(10 s) is over
Backoff(l) ==
    /\ Live(l) /\ loops[l].pc = "backoff"
    /\ loops' = [loops EXCEPT ![l].pc = "register"]
    /\ UNCHANGED <<handle, rxHolder, mailbox, rxClosed, nextId, handlers,
                   enqueued, refused, dequeued, spawns, closePc, lastClose,
                   lastStart, abortLog, stderrLog, ignoredLog, nStarts, nCloses,
                   nSent>>

\* RxFree with a fault: the receiver is taken without waiting for the guard
RxFreeAlways == TRUE

\* RwLock::write is granted only while no other guard is alive
RxFree == rxHolder = 0

\* `internal_rx.write().await`
AcquireRx(l) ==
    /\ Live(l) /\ loops[l].pc = "lock"
    /\ RxFree
    /\ rxHolder' = l
    /\ loops' = [loops EXCEPT ![l].pc = "select"]
    /\ UNCHANGED <<handle, mailbox, rxClosed, nextId, handlers, enqueued,
                   refused, dequeued, spawns, closePc, lastClose, lastStart,
                   abortLog, stderrLog, ignoredLog, nStarts, nCloses, nSent>>

\* IsPing with a fault: the Ping test is missing
IsPingNever(kind) == FALSE

\* `matches!(*interaction, Interaction::Ping(_))`
IsPing(kind) == kind = "Ping"

\* the end of the task body: the final drain is skipped when task_handles is
\* empty, and the guard of internal_rx is dropped when the task finishes
AfterBreak(L, why) ==
    IF L.task_handles = {}
    THEN [L EXCEPT !.pc = "done", !.exit = why]
    ELSE [L EXCEPT !.pc = "drain", !.exit = why]

\* RecvPolled with a fault: the handler is awaited before the next recv()
RecvPolledWhenIdle(tasks) == tasks = {}

\* the recv() branch of select! has no precondition: it is polled whatever
\* task_handles holds, since the handlers are spawned, not awaited
RecvPolled(tasks) == TRUE

\* IsInteraction with a fault: every event but Shutdown is handled as an
\* interaction
IsInteractionOrOther(event) == event # "Shutdown"

\* the arm `DiscordEvent::Interaction(interaction)`
IsInteraction(event) == event = "Interaction"

\* ShutdownCloses with a fault: the Shutdown arm breaks without closing
ShutdownLeavesOpen == FALSE

\* the Shutdown arm calls internal_rx.close() before it breaks
ShutdownCloses == TRUE

\* the branch `Some(message) = internal_rx.recv()` of select!
Recv(l) ==
    /\ Live(l) /\ loops[l].pc = "select"
    /\ RecvPolled(loops[l].task_handles)
    /\ mailbox # << >>
    /\ LET msg == RecvMessage(mailbox)
           L == [loops[l] EXCEPT !.received = @ + 1]
       IN
       /\ mailbox' = RecvRest(mailbox)
       /\ dequeued' = Append(dequeued, msg)
       /\ CASE msg.event = "Shutdown" ->
                 /\ rxClosed' = (rxClosed \/ ShutdownCloses)
                 /\ loops' = [loops EXCEPT ![l] = AfterBreak(L, "shutdown")]
                 /\ rxHolder' = IF L.task_handles = {} THEN 0 ELSE rxHolder
                 /\ UNCHANGED <<handlers, spawns, ignoredLog>>
            [] IsInteraction(msg.event) /\ IsPing(msg.kind) ->
                 /\ loops' = [loops EXCEPT ![l] = L]
                 /\ UNCHANGED <<rxClosed, rxHolder, handlers, spawns, ignoredLog>>
            [] IsInteraction(msg.event) /\ ~IsPing(msg.kind) ->
                 /\ \E slow \in BOOLEAN :
                       handlers' = handlers @@ (msg.id :>
                           [kind |-> msg.kind, cmd |-> msg.cmd, slow |-> slow,
                            done |-> FALSE, calls |-> 0, panicked |-> FALSE,
                            failed |-> FALSE,
                            owner |-> l, abandoned |-> FALSE])
                 /\ spawns' = Append(spawns, msg.id)
                 /\ loops' = [loops EXCEPT ![l] =
                        [L EXCEPT !.task_handles = @ \cup {msg.id}]]
                 /\ UNCHANGED <<rxClosed, rxHolder, ignoredLog>>
            [] OTHER ->
                 /\ ignoredLog' = ignoredLog + 1
                 /\ loops' = [loops EXCEPT ![l] = L]
                 /\ UNCHANGED <<rxClosed, rxHolder, handlers, spawns>>
    /\ UNCHANGED <<handle, nextId, enqueued, refused, closePc, lastClose,
                   lastStart, abortLog, stderrLog, nStarts, nCloses, nSent>>

\* JoinOutcomeIgnored with a fault: the JoinError of a panicked task is
\* unwrapped in the run loop
JoinOutcomeUnwrapped(panicked) == ~panicked

\* the pattern `_` of the task_handles branch takes the result of a finished
\* task whatever it is, the JoinError of a panicked task included
JoinOutcomeIgnored(panicked) == TRUE

\* the branch `_ = task_handles.next(), if !task_handles.is_empty()`
TaskNext(l, t) ==
    /\ Live(l) /\ loops[l].pc = "select"
    /\ t \in loops[l].task_handles /\ handlers[t].done
    /\ IF JoinOutcomeIgnored(handlers[t].panicked)
       THEN /\ loops' = [loops EXCEPT ![l].task_handles = @ \ {t}]
            /\ UNCHANGED rxHolder
       ELSE /\ loops' = [loops EXCEPT ![l] =
                   [@ EXCEPT !.task_handles = {}, !.pc = "done", !.exit = "panic"]]
            /\ rxHolder' = 0
    /\ UNCHANGED <<handle, mailbox, rxClosed, nextId, handlers,
                   enqueued, refused, dequeued, spawns, closePc, lastClose,
                   lastStart, abortLog, stderrLog, ignoredLog, nStarts, nCloses,
                   nSent>>

\* the branch `else => break`: recv() returned None (receiver closed and
\* nothing buffered) and task_handles is empty
ElseBreak(l) ==
    /\ Live(l) /\ loops[l].pc = "select"
    /\ mailbox = << >> /\ rxClosed
    /\ loops[l].task_handles = {}
    /\ loops' = [loops EXCEPT ![l] = AfterBreak(@, "else")]
    /\ rxHolder' = 0
    /\ UNCHANGED <<handle, mailbox, rxClosed, nextId, handlers, enqueued,
                   refused, dequeued, spawns, closePc, lastClose, lastStart,
                   abortLog, stderrLog, ignoredLog, nStarts, nCloses, nSent>>

\* DrainOver with a fault: the drain gives up after the first finished task
DrainOverAfterFirst(rest) == TRUE

\* task_handles.next() returns None only when no task is left; nothing else,
\* and no timer, ends the final drain
DrainOver(rest) == rest = {}

\* `while task_handles.next().await.is_some() {}`: one finished task is taken;
\* the task ends when none is left
DrainNext(l, t) ==
    /\ Live(l) /\ loops[l].pc = "drain"
    /\ t \in loops[l].task_handles /\ handlers[t].done
    /\ LET rest == loops[l].task_handles \ {t} IN
       /\ loops' = [loops EXCEPT ![l] =
              [@ EXCEPT !.task_handles = rest,
                        !.pc = IF DrainOver(rest) THEN "done" ELSE "drain"]]
       /\ rxHolder' = IF DrainOver(rest) THEN 0 ELSE rxHolder
    /\ UNCHANGED <<handle, mailbox, rxClosed, nextId, handlers, enqueued,
                   refused, dequeued, spawns, closePc, lastClose, lastStart,
                   abortLog, stderrLog, ignoredLog, nStarts, nCloses, nSent>>

\* a handler task runs handle_admin_interaction to its end (or panics)
HandlerRun(t) ==
    /\ t \in DOMAIN handlers /\ ~handlers[t].done
    /\ \E path \in Paths(handlers[t].kind, handlers[t].cmd) :
          LET r == handle_admin_interaction(handlers[t].kind, handlers[t].cmd, path)
          IN handlers' = [handlers EXCEPT ![t] =
                 [@ EXCEPT !.done = TRUE, !.calls = r.calls,
                           !.panicked = r.panicked, !.failed = r.failed]]
    /\ UNCHANGED <<handle, loops, rxHolder, mailbox, rxClosed, nextId,
                   enqueued, refused, dequeued, spawns, closePc, lastClose,
                   lastStart, abortLog, stderrLog, ignoredLog, nStarts, nCloses,
                   nSent>>

\* JoinHandle::abort takes effect: the future of the run loop is dropped, and
\* with it the guard of internal_rx and the JoinHandles in task_handles (the
\* handler tasks themselves are detached, not cancelled)
AbortTakesEffect(l) ==
    /\ l \in LoopIds
    /\ loops[l].cancelled /\ loops[l].pc \notin {"done", "aborted"}
    /\ loops' = [loops EXCEPT ![l] =
           [@ EXCEPT !.pc = "aborted", !.task_handles = {}]]
    /\ rxHolder' = IF rxHolder = l THEN 0 ELSE rxHolder
    /\ UNCHANGED <<handle, mailbox, rxClosed, nextId, handlers, enqueued,
                   refused, dequeued, spawns, closePc, lastClose, lastStart,
                   abortLog, stderrLog, ignoredLog, nStarts, nCloses, nSent>>

\* ---- GuildHandler::close -------------------------------------------------
Unfinished(l) == {t \in DOMAIN handlers : handlers[t].owner = l /\ ~handlers[t].done}

\* the run loop waits on something that outlasts the timeout
TimeoutMayElapse(l) ==
    \/ loops[l].pc = "backoff"
    \/ /\ loops[l].pc = "drain"
       /\ \E t \in loops[l].task_handles : ~handlers[t].done
       /\ \A t \in loops[l].task_handles : ~handlers[t].done => handlers[t].slow

\* SendWithoutHandle with a fault: close() sends Shutdown before it looks at
\* the handle
SendBeforeHandleTest == TRUE

\* the send of close() is inside `if let Some(s) = self.handle`: without a
\* handle nothing is sent
SendWithoutHandle == FALSE

\* close() up to its first await: nothing to do without a handle; otherwise
\* Shutdown is sent, and a failed send returns Err through `?`
CloseCall ==
    /\ closePc = "idle"
    /\ nCloses < MaxCloses
    /\ nCloses' = nCloses + 1
    /\ IF handle = 0
       THEN /\ lastClose' = [NoClose EXCEPT !.called = TRUE, !.ret = "Ok",
                                            !.sent = SendWithoutHandle /\ CanSend]
            /\ IF SendWithoutHandle /\ CanSend
               THEN /\ mailbox' = Append(mailbox, [id |-> nextId] @@ ShutdownEvent)
                    /\ enqueued' = Append(enqueued, [id |-> nextId] @@ ShutdownEvent)
                    /\ nextId' = nextId + 1
               ELSE UNCHANGED <<mailbox, enqueued, nextId>>
            /\ UNCHANGED <<refused, closePc>>
       ELSE IF CanSend
       THEN /\ mailbox' = Append(mailbox, [id |-> nextId] @@ ShutdownEvent)
            /\ enqueued' = Append(enqueued, [id |-> nextId] @@ ShutdownEvent)
            /\ nextId' = nextId + 1
            /\ closePc' = "waiting"
            /\ lastClose' = [NoClose EXCEPT !.called = TRUE, !.loop = handle,
                                            !.sent = TRUE,
                                            !.inflight = Unfinished(handle)]
            /\ UNCHANGED refused
       ELSE /\ refused' = refused \cup {nextId}
            /\ nextId' = nextId + 1
            /\ lastClose' = [NoClose EXCEPT !.called = TRUE, !.loop = handle,
                                            !.ret = "Err",
                                            !.inflight = Unfinished(handle)]
            /\ UNCHANGED <<mailbox, enqueued, closePc>>
    /\ UNCHANGED <<handle, loops, rxHolder, rxClosed, handlers, dequeued,
                   spawns, lastStart, abortLog, stderrLog, ignoredLog, nStarts,
                   nSent>>

\* the run loop finished before the timer: handle = None, Ok(())
CloseJoined ==
    /\ closePc = "waiting"
    /\ loops[handle].pc = "done"
    /\ closePc' = "idle"
    /\ handle' = 0
    /\ lastClose' = [lastClose EXCEPT !.ret = "Ok"]
    /\ UNCHANGED <<loops, rxHolder, mailbox, rxClosed, nextId, handlers,
                   enqueued, refused, dequeued, spawns, lastStart, abortLog,
                   stderrLog, ignoredLog, nStarts, nCloses, nSent>>

\* the timer fired first: warn!, abort(), handle = None, Ok(())
CloseTimeout ==
    /\ closePc = "waiting"
    /\ loops[handle].pc # "done"
    /\ TimeoutMayElapse(handle)
    /\ closePc' = "idle"
    /\ abortLog' = abortLog + 1
    /\ loops' = [loops EXCEPT ![handle].cancelled = TRUE]
    /\ handlers' = [t \in DOMAIN handlers |->
           IF t \in Unfinished(handle)
           THEN [handlers[t] EXCEPT !.abandoned = TRUE]
           ELSE handlers[t]]
    /\ handle' = 0
    /\ lastClose' = [lastClose EXCEPT !.ret = "Ok", !.aborted = TRUE,
                                      !.logs = @ + 1]
    /\ UNCHANGED <<rxHolder, mailbox, rxClosed, nextId, enqueued, refused,
                   dequeued, spawns, lastStart, stderrLog, ignoredLog, nStarts,
                   nCloses, nSent>>

\* ---- specification -------------------------------------------------------
Next ==
    \/ \E ev \in SentEvents : Enqueue(ev)
    \/ Start
    \/ CloseCall
    \/ CloseJoined
    \/ CloseTimeout
    \/ \E l \in LoopIds : Register(l)
    \/ \E l \in LoopIds : Backoff(l)
    \/ \E l \in LoopIds : AcquireRx(l)
    \/ \E l \in LoopIds : Recv(l)
    \/ \E l \in LoopIds : ElseBreak(l)
    \/ \E l \in LoopIds : \E t \in loops[l].task_handles : TaskNext(l, t)
    \/ \E l \in LoopIds : \E t \in loops[l].task_handles : DrainNext(l, t)
    \/ \E l \in LoopIds : AbortTakesEffect(l)
    \/ \E t \in DOMAIN handlers : HandlerRun(t)

Spec == Init /\ [][Next]_vars

\* The same handler driven through one more start(), with fewer kinds of
\* event: long enough for a third run loop over the one mailbox.
RestartNext ==
    \/ \E ev \in RestartEvents : Enqueue(ev)
    \/ StartCall(MaxRestarts)
    \/ CloseCall
    \/ CloseJoined
    \/ CloseTimeout
    \/ \E l \in LoopIds : Register(l)
    \/ \E l \in LoopIds : Backoff(l)
    \/ \E l \in LoopIds : AcquireRx(l)
    \/ \E l \in LoopIds : Recv(l)
    \/ \E l \in LoopIds : ElseBreak(l)
    \/ \E l \in LoopIds : \E t \in loops[l].task_handles : TaskNext(l, t)
    \/ \E l \in LoopIds : \E t \in loops[l].task_handles : DrainNext(l, t)
    \/ \E l \in LoopIds : AbortTakesEffect(l)
    \/ \E t \in DOMAIN handlers : HandlerRun(t)

RestartSpec == Init /\ [][RestartNext]_vars

\* The tokio scheduler runs every task that is ready: a run loop that can take
\* a step takes it, an aborted future is dropped, a close() whose run loop has
\* finished returns.  Handler tasks are taken to complete eventually.
Fairness ==
    /\ WF_vars(\E l \in LoopIds :
            \/ Register(l) \/ Backoff(l) \/ AcquireRx(l) \/ Recv(l) \/ ElseBreak(l)
            \/ \E t \in loops[l].task_handles : TaskNext(l, t) \/ DrainNext(l, t))
    /\ WF_vars(\E l \in LoopIds : AbortTakesEffect(l))
    /\ WF_vars(\E t \in DOMAIN handlers : HandlerRun(t))
    /\ WF_vars(CloseJoined)

FairSpec == Spec /\ Fairness

\* ---- lifecycle states of the specification, read off the run loop ----------
Registering(l) == loops[l].pc \in {"register", "backoff", "lock"} /\ ~loops[l].cancelled
Running(l) == loops[l].pc = "select" /\ ~loops[l].cancelled
Draining(l) == loops[l].pc = "drain" /\ ~loops[l].cancelled
Stopped(l) == loops[l].pc \in {"done", "aborted"} \/ loops[l].cancelled

\* the run loops whose future still owns the write guard of internal_rx
GuardHolders == {l \in LoopIds : loops[l].pc \in {"select", "drain"}}

Occurrences(x, seq) == Cardinality({i \in 1..Len(seq) : seq[i] = x})
Ids(seq) == {seq[i].id : i \in 1..Len(seq)}

\* ---- claims ----------------------------------------------------------------

\* C1: at any instant at most one run loop is Running and at most one run loop
\* owns the receiver of the mailbox, whatever the interleaving of start(),
\* close(), forced abort and a later start().
C1_SingleReader ==
    /\ Cardinality({l \in LoopIds : Running(l)}) <= 1
    /\ Cardinality(GuardHolders) <= 1
    /\ \A l \in GuardHolders : rxHolder = l

\* C1 witness: a run loop was force-aborted while draining and still owns the
\* receiver, and the run loop of a later start() is waiting for it.
C1_Witness ==
    \E l, m \in LoopIds :
        /\ loops[l].cancelled /\ loops[l].pc = "drain" /\ rxHolder = l
        /\ loops[m].pc = "lock" /\ handle = m

\* C2 (as claimed): once close() has returned Ok after a cooperative shutdown
\* and no close() ever aborted, every message whose send succeeded has been
\* dequeued exactly once and every dequeued non-Ping interaction has exactly
\* one handler task.
C2_NoEventLost ==
    (/\ closePc = "idle" /\ lastClose.sent /\ lastClose.ret = "Ok"
     /\ abortLog = 0)
    => /\ \A i \in 1..Len(enqueued) : Occurrences(enqueued[i], dequeued) = 1
       /\ \A i \in 1..Len(dequeued) :
             (dequeued[i].event = "Interaction" /\ dequeued[i].kind # "Ping")
             => Occurrences(dequeued[i].id, spawns) = 1

\* C3: the messages are dequeued in the order in which they were enqueued: the
\* dequeued sequence is always a prefix of the enqueued one.
C3_Fifo ==
    /\ Len(dequeued) <= Len(enqueued)
    /\ \A i \in 1..Len(dequeued) : dequeued[i] = enqueued[i]

\* C3 witness: two interactions were dequeued and the handler of the later one
\* completed while the handler of the earlier one is still running.
C3_Witness ==
    \E a, b \in DOMAIN handlers :
        /\ a < b /\ handlers[b].done /\ ~handlers[a].done
        /\ {a, b} \subseteq Ids(dequeued)

\* C4: a Ping interaction never gets a handler task, so no handler ever runs
\* handle_admin_interaction on a Ping and no reply is made for one.
C4_PingIgnored ==
    /\ \A t \in DOMAIN handlers : handlers[t].kind # "Ping"
    /\ \A i \in 1..Len(dequeued) :
          dequeued[i].kind = "Ping" => Occurrences(dequeued[i].id, spawns) = 0

\* C4 witness: a Ping has been dequeued by a run loop.
C4_Witness ==
    \E i \in 1..Len(dequeued) : dequeued[i].kind = "Ping"

\* C5 (as claimed): a close() on a started actor whose handlers all complete
\* returns Ok with the run loop finished on its own and no forced abort.
C5_CooperativeClose ==
    (/\ closePc = "idle" /\ lastClose.called /\ lastClose.loop # 0
     /\ \A t \in DOMAIN handlers :
           handlers[t].owner = lastClose.loop => handlers[t].done)
    => /\ lastClose.ret = "Ok"
       /\ ~lastClose.aborted /\ lastClose.logs = 0
       /\ loops[lastClose.loop].pc = "done"

C7_Registration ==
    \A l \in LoopIds :
        /\ loops[l].successes <= 1
        /\ loops[l].attempts = loops[l].fails + loops[l].successes
        /\ (loops[l].pc \in {"lock", "select", "drain", "done"} \/ loops[l].received > 0)
           => loops[l].successes = 1

\* C7 witness: registration failed twice, succeeded at the third attempt, and
\* the run loop is Running.
C7_Witness ==
    \E l \in LoopIds :
        /\ loops[l].fails = 2 /\ loops[l].successes = 1 /\ loops[l].attempts = 3
        /\ Running(l)

\* C8 (as claimed): a start() on a started handler reports an error to its
\* caller.
C8_DuplicateStartError ==
    lastStart.duplicate => lastStart.ret = "Err"

\* C8 (amended): a start() on a handler whose handle is set writes one line to
\* stderr, returns unit, spawns no run loop and leaves the handle, the run
\* loops, the mailbox and the handler tasks as they were.
C8_DuplicateStartRejected ==
    [][(nStarts' # nStarts /\ handle # 0)
       => /\ loops' = loops /\ handle' = handle /\ rxHolder' = rxHolder
          /\ mailbox' = mailbox /\ rxClosed' = rxClosed
          /\ handlers' = handlers /\ spawns' = spawns
          /\ stderrLog' = stderrLog + 1
          /\ lastStart'.duplicate /\ lastStart'.ret = "unit"]_vars

\* C8 witness: start() was called on a handler whose run loop is Running with
\* a handler task in flight.
C8_Witness ==
    /\ lastStart.duplicate /\ handle # 0
    /\ Running(handle) /\ loops[handle].task_handles # {}

\* C9 (as claimed): a handler task that was mid-flight when close() aborted
\* its run loop never completes and makes no response call.
C9_AbandonedHandlersStop ==
    \A t \in DOMAIN handlers :
        handlers[t].abandoned => (~handlers[t].done /\ handlers[t].calls = 0)

\* C10 (as claimed): a handler task that ran to completion (without a panic)
\* made exactly one response call.
C10_ExactlyOneResponse ==
    \A t \in DOMAIN handlers :
        (handlers[t].done /\ ~handlers[t].panicked) => handlers[t].calls = 1

OwnedBy(l, hs) == {t \in DOMAIN hs : hs[t].owner = l}

\* C12: once a run loop has dequeued Shutdown, no send on the mailbox succeeds
\* any more, that run loop spawns no further handler task, and unless it is
\* force-aborted it finishes only when none of its handler tasks is left in
\* flight.
C12_Draining ==
    [][\A l \in LoopIds :
         /\ loops[l].exit = "shutdown"
            => /\ enqueued' = enqueued
               /\ Len(mailbox') <= Len(mailbox)
               /\ OwnedBy(l, handlers') = OwnedBy(l, handlers)
         /\ (loops'[l].exit = "shutdown" /\ loops'[l].pc = "done")
            => /\ loops'[l].task_handles = {}
               /\ \A t \in OwnedBy(l, handlers') : handlers'[t].done]_vars

\* C12 witness: close() was called with a handler in flight; the run loop
\* dequeued the Shutdown, drained the handler and finished without an abort,
\* and a send made since then was refused.
C12_Witness ==
    \E l \in LoopIds :
        /\ loops[l].exit = "shutdown" /\ loops[l].pc = "done"
        /\ lastClose.loop = l /\ lastClose.inflight # {}
        /\ lastClose.ret = "Ok" /\ ~lastClose.aborted
        /\ refused # {} /\ abortLog = 0

\* the actor is Stopped: the run loop spawned last has finished or was aborted
ActorStopped == loops # << >> /\ Stopped(Len(loops))

\* C13 (as claimed): once the actor is Stopped no operation spawns a run loop
\* again, so it stays Stopped.
C13_StoppedTerminal ==
    [][ActorStopped => (Len(loops') = Len(loops) /\ ActorStopped')]_vars

\* C14 (as claimed): a run loop that is still registering (attempting or
\* backing off) can dequeue a message that is waiting in the mailbox.
C14_NoHeadOfLineBlocking ==
    \A l \in LoopIds :
        (/\ Live(l) /\ loops[l].pc \in {"register", "backoff"}
         /\ loops[l].fails > 0 /\ mailbox # << >>)
        => ENABLED Recv(l)

\* C15: a Running run loop can always dequeue the next buffered message,
\* whatever handler tasks are in flight, and every non-Ping interaction it has
\* dequeued has had its handler task spawned.
C15_IntakeNotBlocked ==
    /\ \A l \in LoopIds :
          (Running(l) /\ mailbox # << >>) => ENABLED Recv(l)
    /\ \A i \in 1..Len(dequeued) :
          (dequeued[i].event = "Interaction" /\ dequeued[i].kind # "Ping")
          => dequeued[i].id \in DOMAIN handlers

\* C15 witness: a run loop with a slow handler still running has dequeued a
\* later interaction and spawned its handler, and is still Running.
C15_Witness ==
    \E t, u \in DOMAIN handlers :
        /\ t < u /\ handlers[t].owner = handlers[u].owner
        /\ handlers[t].slow /\ ~handlers[t].done
        /\ Running(handlers[t].owner)
        /\ {t, u} \subseteq loops[handlers[t].owner].task_handles

\* C16: dequeuing an event that is neither Shutdown nor an Interaction adds one
\* log entry and nothing else: the run loop stays Running with the same
\* in-flight set, no handler is spawned or changed, and the rest of the mailbox
\* is untouched.
C16_OtherEventIgnored ==
    [][(/\ Len(dequeued') = Len(dequeued) + 1
        /\ dequeued'[Len(dequeued')].event = "Other")
       => /\ ignoredLog' = ignoredLog + 1
          /\ handlers' = handlers /\ spawns' = spawns
          /\ mailbox' = Tail(mailbox)
          /\ rxClosed' = rxClosed /\ rxHolder' = rxHolder
          /\ \A l \in LoopIds :
                /\ loops'[l].pc = loops[l].pc
                /\ loops'[l].task_handles = loops[l].task_handles
                /\ Running(l) => Running(l)']_vars

\* C16 witness: an unexpected event was dequeued by a run loop that is Running
\* with a handler in flight and a message still buffered.
C16_Witness ==
    /\ dequeued # << >> /\ dequeued[Len(dequeued)].event = "Other"
    /\ mailbox # << >>
    /\ \E l \in LoopIds : Running(l) /\ loops[l].task_handles # {}

C18_RunningExits ==
    [][\A l \in LoopIds :
         (Running(l) /\ ~Running(l)')
         => (loops'[l].exit = "shutdown" \/ loops'[l].cancelled)]_vars

\* C19 (as claimed): a close() called with the handle set returns Ok and
\* leaves the handle cleared.
C19_CloseAlwaysOk ==
    [][(/\ handle # 0 /\ closePc' = "idle"
        /\ (nCloses' # nCloses \/ closePc = "waiting"))
       => (lastClose'.ret = "Ok" /\ handle' = 0)]_vars

\* C20 (as claimed): when close() has returned, no Shutdown is left buffered
\* in the mailbox.
C20_NoStaleShutdown ==
    (closePc = "idle" /\ lastClose.called)
    => \A i \in 1..Len(mailbox) : mailbox[i].event # "Shutdown"

\* C21: once a run loop has closed the mailbox it stays closed: no later send
\* is accepted and the mailbox only shrinks; a run loop that reads the closed
\* mailbox leaves its select loop on its own through `else => break`, neither
\* aborted nor by dequeuing a Shutdown.
C21_ClosedForGood ==
    [][/\ rxClosed => /\ rxClosed'
                      /\ enqueued' = enqueued
                      /\ Len(mailbox') <= Len(mailbox)
       /\ \A l \in LoopIds :
             (rxClosed /\ Running(l) /\ ~Running(l)')
             => /\ loops'[l].exit = "else"
                /\ ~loops'[l].cancelled
                /\ dequeued' = dequeued]_vars

\* C22: close() on a handler that was never started returns Ok at once and
\* changes nothing: no Shutdown is enqueued, the mailbox is as it was, no
\* forced-abort entry is logged and no handle is set; the first start() after
\* it spawns a run loop that begins with registration, as on a fresh handler.
C22_CloseNeverStarted ==
    [][/\ (loops = << >> /\ nCloses' # nCloses)
          => /\ lastClose'.ret = "Ok" /\ closePc' = "idle"
             /\ ~lastClose'.sent /\ ~lastClose'.aborted
             /\ <<handle, loops, rxHolder, mailbox, rxClosed, handlers,
                   enqueued, refused, dequeued, spawns, abortLog, stderrLog,
                   ignoredLog>>'
                = <<handle, loops, rxHolder, mailbox, rxClosed, handlers,
                    enqueued, refused, dequeued, spawns, abortLog, stderrLog,
                    ignoredLog>>
       /\ (loops = << >> /\ nStarts' # nStarts)
          => /\ loops' = <<NewLoop>> /\ handle' = 1 /\ Registering(1)'
             /\ ~lastStart'.duplicate
             /\ mailbox' = mailbox /\ enqueued' = enqueued]_vars

\* close() was called twice on a handler with events buffered before any
\* start(), and the start() after them has spawned the first run loop
C22_Witness ==
    /\ nCloses = 2 /\ lastClose.called /\ lastClose.loop = 0 /\ lastClose.ret = "Ok"
    /\ Len(loops) = 1 /\ Registering(1) /\ handle = 1
    /\ Len(mailbox) = 2 /\ enqueued = mailbox /\ abortLog = 0
====
